---- MODULE Spec2Model ----
(***************************************************************************)
(* Digital photo album (src/album.c): a scheduler process forks one worker *)
(* per image, at most max_conversions at a time.  Each worker             *)
(* (process_img) forks the two resizes, takes its turn on the html pipe,   *)
(* forks the writer of its link-block, waits for the gate pipe, displays   *)
(* the thumbnail, runs the two-question session with a helper process,     *)
(* writes its caption-block and releases the next worker.                  *)
(*                                                                         *)
(* Every process created by fork() is a process of the model: a child the  *)
(* code never waits for runs on its own, also after its parent has exited. *)
(***************************************************************************)
EXTENDS Integers, Sequences, FiniteSets, TLC

\* the largest number of images on the command line
NumItems == 4

\* src/album.c:632  int num, max_conversions = 3
max_conversions == 3

Items == 1..NumItems

\* what the user may type at the rotation prompt (input_string strips the newline)
RotAnswers == {"1", "2", "3", ""}

\* what the user may type at the caption prompt
Captions == {"cap"}

VARIABLES
  argc,        \* process(): number of images (argc after argc--)
  sched_pc,    \* position of main(): "validate", "pipe" (process() entered),
               \* "poll", "fork", "waitall", "done" (return 0), "error" (return -1)
  i,           \* process(): loop variable of the spawn loop (workers forked so far)
  j,           \* process(): loop variable of the final waitpid loop
  wstat,       \* per worker process: "none", "running", "zombie", "reaped", "joined"
  pc,          \* per worker: position in process_img
  receive,     \* per worker: local variable receive of process_img
  rot_dir,     \* per worker: local variable rot_dir of process_img
  caption,     \* per worker: local buffer caption of process_img
  html,        \* pipe ptp2: whose turn it is to write to index.html
  gate,        \* pipe ptp1: "previous image is done with its caption"
  res_thumb,   \* per worker: the child of resize(img, thumb_name, "10%")
  res_med,     \* per worker: the child of resize(img, med_name, "25%")
  img_child,   \* per worker: the child that runs img_html
  rot_thumb,   \* per worker: the child of rotate(thumb_name, ...)
  rot_med,     \* per worker: the child of rotate(med_name, ...)
  helper,      \* per worker: the child forked by ask_user
  sv1,         \* per worker: pipe parent -> helper
  sv2,         \* per worker: pipe helper -> parent
  report,      \* index.html: the sequence of blocks written
  gate_got,    \* per worker: the value its read of the gate pipe returned (0: none)
  tok_sent,    \* per worker: writes of index+1 to the html pipe
  gate_sent,   \* per worker: writes to the gate pipe
  argv,        \* main(): the files named on the command line (argv + 1)
  vi,          \* validate(): loop variable i
  bytes,       \* invalid_img(): unsigned char bytes[8], a slot of the stack
  ptp,         \* process(): TRUE when pipe(ptp1) and pipe(ptp2) have succeeded
  dis_thumb,   \* per worker: the child of display(thumb_name)
  died         \* per worker: the position of its exit(-1) ("": none)

vars == <<argc, sched_pc, i, j, wstat, pc, receive, rot_dir, caption, html, gate,
          res_thumb, res_med, img_child, rot_thumb, rot_med, helper, sv1, sv2,
          report, gate_got, tok_sent, gate_sent, argv, vi, bytes, ptp, dis_thumb,
          died>>

mainVars == <<argv, vi, bytes, ptp>>
schedVars == <<argc, sched_pc, i, j, mainVars>>
childVars == <<res_thumb, res_med, img_child, rot_thumb, rot_med, dis_thumb>>
sessVars == <<helper, sv1, sv2>>
localVars == <<receive, rot_dir, caption>>
sentVars == <<gate_got, tok_sent, gate_sent, died>>

\* a block of index.html; item is the image it belongs to
LinkBlock(k) == [kind |-> "link", item |-> k, text |-> ""]
CapBlock(k, c) == [kind |-> "cap", item |-> k, text |-> c]

\* The files a command line may name: whether fopen(path, "r") succeeds, and
\* the leading bytes of the file (at most 8 of them matter)
JpgData == <<255, 216, 255, 224, 0, 16, 74, 70>>
PngData == <<137, 80, 78, 71, 13, 10, 26, 10>>
TextData == <<104, 101, 108, 108, 111, 32, 119, 111>>
Missing == [ok |-> FALSE, data |-> <<>>]
Jpg == [ok |-> TRUE, data |-> JpgData]
Text == [ok |-> TRUE, data |-> TextData]
Empty == [ok |-> TRUE, data |-> <<>>]
PngCut == [ok |-> TRUE, data |-> SubSeq(PngData, 1, 4)]
Files == {Missing, Jpg, Text, Empty, PngCut}

\* what the slot of bytes[8] may hold when invalid_img is first entered
StackBytes == {JpgData, TextData}

\* the state of the workers, their children and the pipes before any fork
Idle ==
  /\ wstat = [k \in Items |-> "none"]
  /\ pc = [k \in Items |-> "none"]
  /\ receive = [k \in Items |-> 0]
  /\ rot_dir = [k \in Items |-> 0]
  /\ caption = [k \in Items |-> ""]
  /\ html = <<>>
  /\ gate = <<>>
  /\ res_thumb = [k \in Items |-> "none"]
  /\ res_med = [k \in Items |-> "none"]
  /\ img_child = [k \in Items |-> "none"]
  /\ rot_thumb = [k \in Items |-> "none"]
  /\ rot_med = [k \in Items |-> "none"]
  /\ dis_thumb = [k \in Items |-> "none"]
  /\ helper = [k \in Items |-> "none"]
  /\ sv1 = [k \in Items |-> <<>>]
  /\ sv2 = [k \in Items |-> <<>>]
  /\ gate_got = [k \in Items |-> 0]
  /\ tok_sent = [k \in Items |-> 0]
  /\ gate_sent = [k \in Items |-> 0]
  /\ died = [k \in Items |-> ""]

\* process() has made its pipes for n images that validate() has accepted
Entered(n) ==
  /\ argc = n
  /\ sched_pc = "poll"
  /\ i = 0
  /\ j = 0
  /\ argv = [k \in 1..n |-> Jpg]
  /\ vi = n + 1
  /\ bytes = JpgData
  /\ ptp = TRUE

\* the state when process() enters its spawn loop with n images
Start(n) == Entered(n) /\ Idle /\ report = <<>>

Init == \E n \in 1..NumItems : Start(n)

----------------------------------------------------------------------------
\* main() and validate(); argc is the number of files, argc - 1 in main()

\* header_is_img(bytes): jpg, png, bmp or gif signature
header_is_img(b) ==
  \/ b[1] = 255 /\ b[2] = 216
  \/ \A p \in 1..8 : b[p] = PngData[p]
  \/ b[1] = 66 /\ b[2] = 77
  \/ b[1] = 71 /\ b[2] = 73 /\ b[3] = 70

\* fread(bytes, 8, 1, fp), its result not looked at: the bytes the file has
\* are stored, the rest of bytes[] keeps what the stack slot held before
fread(old, data) ==
  [p \in 1..8 |-> IF p <= Len(data) THEN data[p] ELSE old[p]]

\* if (argc <= 1) { fprintf(stderr, "Usage: ..."); return -1; }
Usage ==
  /\ sched_pc = "validate"
  /\ argc = 0
  /\ sched_pc' = "error"
  /\ UNCHANGED <<argc, i, j, wstat, pc, localVars, html, gate, childVars, sessVars,
                 report, sentVars, mainVars>>

\* one turn of the loop of validate(): if (invalid_img(argv[i])) return -1;
InvalidImg ==
  /\ sched_pc = "validate"
  /\ argc >= 1
  /\ vi <= argc
  /\ IF ~argv[vi].ok
     THEN sched_pc' = "error" /\ UNCHANGED <<vi, bytes>>
     ELSE /\ bytes' = fread(bytes, argv[vi].data)
          /\ IF header_is_img(bytes')
             THEN vi' = vi + 1 /\ UNCHANGED sched_pc
             ELSE sched_pc' = "error" /\ UNCHANGED vi
  /\ UNCHANGED <<argc, i, j, wstat, pc, localVars, html, gate, childVars, sessVars,
                 report, sentVars, argv, ptp>>

\* validate() returns 0 and main() calls process(argc, argv)
EnterProcess ==
  /\ sched_pc = "validate"
  /\ argc >= 1
  /\ vi > argc
  /\ sched_pc' = "pipe"
  /\ UNCHANGED <<argc, i, j, wstat, pc, localVars, html, gate, childVars, sessVars,
                 report, sentVars, mainVars>>

\* pipe(ptp1) and pipe(ptp2) succeed
MakePipes ==
  /\ sched_pc = "pipe"
  /\ ptp' = TRUE
  /\ sched_pc' = "poll"
  /\ UNCHANGED <<argc, i, j, wstat, pc, localVars, html, gate, childVars, sessVars,
                 report, sentVars, argv, vi, bytes>>

\* if (pipe(ptp1) != 0 || pipe(ptp2) != 0) { ...; return -1; }
PipeFail ==
  /\ sched_pc = "pipe"
  /\ sched_pc' = "error"
  /\ UNCHANGED <<argc, i, j, wstat, pc, localVars, html, gate, childVars, sessVars,
                 report, sentVars, mainVars>>

----------------------------------------------------------------------------
\* The scheduler: process()

\* workers that are forked and have not exited
Active == {k \in Items : wstat[k] = "running"}

\* concurrent(pid, argc): the entries of pid[] set so far count when their
\* process is still running.  pid[] is an uninitialised array, so the entries
\* of the workers not forked yet hold garbage: waitpid on such a value (-1, a
\* process group, the pid of a running worker) may return 0 as long as some
\* child runs; g is the number of those entries that do.
concurrent(g) == Cardinality(Active) + g

\* the values g can take: garbage entries counted as running
Garbage == IF Active = {} THEN {0} ELSE 0..(argc - i)

\* waitpid(pid[k], &status, WNOHANG) reaps a worker that has exited
Reap == [k \in Items |-> IF wstat[k] = "zombie" THEN "reaped" ELSE wstat[k]]

\* a slip in the loop condition: one worker too many is let in
SaturatedOff(num) == num > max_conversions

\* (num = concurrent(pid, argc)) >= max_conversions
Saturated(num) == num >= max_conversions

\* while ((num = concurrent(pid, argc)) >= max_conversions) sleep(1);
SchedPoll ==
  /\ sched_pc = "poll"
  /\ \E g \in Garbage :
       /\ wstat' = Reap
       /\ sched_pc' = IF Saturated(concurrent(g)) THEN "poll" ELSE "fork"
  /\ UNCHANGED <<argc, i, j, pc, localVars, html, gate, childVars, sessVars, report, sentVars,
                 mainVars>>

\* pid[i] = fork(); the child runs process_img(path, ..., i, ptp1, ptp2)
SchedFork ==
  /\ sched_pc = "fork"
  /\ wstat' = [wstat EXCEPT ![i + 1] = "running"]
  /\ pc' = [pc EXCEPT ![i + 1] = "resize"]
  /\ i' = i + 1
  /\ sched_pc' = IF i + 1 = argc THEN "waitall" ELSE "poll"
  /\ j' = IF i + 1 = argc THEN 1 ELSE j
  /\ UNCHANGED <<argc, localVars, html, gate, childVars, sessVars, report, sentVars,
                 mainVars>>

\* the final loop with WNOHANG: it does not block on a running worker
SchedWaitNoHang ==
  /\ sched_pc = "waitall"
  /\ wstat' = [wstat EXCEPT ![j] = IF @ = "zombie" THEN "joined" ELSE @]
  /\ j' = IF j = argc THEN j ELSE j + 1
  /\ sched_pc' = IF j = argc THEN "done" ELSE "waitall"
  /\ UNCHANGED <<argc, i, pc, localVars, html, gate, childVars, sessVars, report, sentVars,
                 mainVars>>

\* for (i = 0; i < argc; i++) waitpid(pid[i], &status, 0);
\* returns at once (-1) for a worker concurrent() has reaped already
SchedWait ==
  /\ sched_pc = "waitall"
  /\ wstat[j] \in {"zombie", "reaped", "joined"}
  /\ wstat' = [wstat EXCEPT ![j] = IF @ = "zombie" THEN "joined" ELSE @]
  /\ j' = IF j = argc THEN j ELSE j + 1
  /\ sched_pc' = IF j = argc THEN "done" ELSE "waitall"
  /\ UNCHANGED <<argc, i, pc, localVars, html, gate, childVars, sessVars, report, sentVars,
                 mainVars>>

----------------------------------------------------------------------------
\* One worker: process_img, with index = k after the index++ of line 423

\* the worker leaves from position "from" to position "to"
Goto(k, from, to) == pc[k] = from /\ pc' = [pc EXCEPT ![k] = to]

\* process_img without the wait for the turn on the html pipe
ResizeNoPoll(k) ==
  /\ Goto(k, "resize", "html")
  /\ res_thumb' = [res_thumb EXCEPT ![k] = "run"]
  /\ res_med' = [res_med EXCEPT ![k] = "run"]
  /\ UNCHANGED <<schedVars, wstat, localVars, html, gate, img_child, rot_thumb,
                 rot_med, sessVars, report, sentVars,
                 dis_thumb>>

\* process_img without the special case of the first image
ResizePollAll(k) ==
  /\ Goto(k, "resize", "poll")
  /\ res_thumb' = [res_thumb EXCEPT ![k] = "run"]
  /\ res_med' = [res_med EXCEPT ![k] = "run"]
  /\ UNCHANGED <<schedVars, wstat, localVars, html, gate, img_child, rot_thumb,
                 rot_med, sessVars, report, sentVars,
                 dis_thumb>>

\* res_thumb = resize(img, thumb_name, "10%"); resize(img, med_name, "25%");
Resize(k) ==
  /\ Goto(k, "resize", IF k # 1 THEN "poll" ELSE "html")
  /\ res_thumb' = [res_thumb EXCEPT ![k] = "run"]
  /\ res_med' = [res_med EXCEPT ![k] = "run"]
  /\ UNCHANGED <<schedVars, wstat, localVars, html, gate, img_child, rot_thumb,
                 rot_med, sessVars, report, sentVars,
                 dis_thumb>>

\* magick convert -resize 10% ends
ResThumbDone(k) ==
  /\ res_thumb[k] = "run"
  /\ res_thumb' = [res_thumb EXCEPT ![k] = "done"]
  /\ UNCHANGED <<schedVars, wstat, pc, localVars, html, gate, res_med, img_child,
                 rot_thumb, rot_med, sessVars, report, sentVars,
                 dis_thumb>>

\* magick convert -resize 25% ends
ResMedDone(k) ==
  /\ res_med[k] = "run"
  /\ res_med' = [res_med EXCEPT ![k] = "done"]
  /\ UNCHANGED <<schedVars, wstat, pc, localVars, html, gate, res_thumb, img_child,
                 rot_thumb, rot_med, sessVars, report, sentVars,
                 dis_thumb>>

\* a test that lets a worker in on the turn of a lower index
MyTurnLoose(k, v) == v <= k

\* if (index != receive) ... else cont = 0;
MyTurn(k, v) == v = k

\* read(html_in, &receive, sizeof(int)): blocks while the pipe is empty
PollRead(k) ==
  /\ pc[k] = "poll"
  /\ html # <<>>
  /\ receive' = [receive EXCEPT ![k] = Head(html)]
  /\ html' = Tail(html)
  /\ pc' = [pc EXCEPT ![k] = IF MyTurn(k, Head(html)) THEN "html" ELSE "resend"]
  /\ UNCHANGED <<schedVars, wstat, rot_dir, caption, gate, childVars, sessVars,
                 report, sentVars>>

\* the loop without its write: a value that is not the worker's own is lost
ResendDrop(k) ==
  /\ Goto(k, "resend", "poll")
  /\ UNCHANGED <<schedVars, wstat, localVars, html, gate, childVars, sessVars,
                 report, sentVars>>

\* write(html_out, &receive, sizeof(int)); sleep(1);
Resend(k) ==
  /\ Goto(k, "resend", "poll")
  /\ html' = Append(html, receive[k])
  /\ UNCHANGED <<schedVars, wstat, localVars, gate, childVars, sessVars, report,
                 sentVars>>

\* if (fork() == 0) exit(img_html(thumb_name, med_name, index));
HtmlFork(k) ==
  /\ Goto(k, "html", "wait_thumb")
  /\ img_child' = [img_child EXCEPT ![k] = "run"]
  /\ UNCHANGED <<schedVars, wstat, localVars, html, gate, res_thumb, res_med,
                 rot_thumb, rot_med, sessVars, report, sentVars,
                 dis_thumb>>

\* img_html: fopen("index.html", order == 1 ? "w" : "a"), fprintf, fclose,
\* taken as one step of the child
img_html(k) ==
  IF k = 1 THEN <<LinkBlock(k)>> ELSE Append(report, LinkBlock(k))

ImgHtml(k) ==
  /\ img_child[k] = "run"
  /\ img_child' = [img_child EXCEPT ![k] = "done"]
  /\ report' = img_html(k)
  /\ UNCHANGED <<schedVars, wstat, pc, localVars, html, gate, res_thumb, res_med,
                 rot_thumb, rot_med, sessVars, sentVars,
                 dis_thumb>>

\* a child has exited, with status 0 ("done") or not ("failed")
Ended(c) == c \in {"done", "failed"}

\* process_img in which no image waits for the one before it
WaitThumbNoGate(k) ==
  /\ Goto(k, "wait_thumb", "display")
  /\ Ended(res_thumb[k])
  /\ UNCHANGED <<schedVars, wstat, localVars, html, gate, childVars, sessVars,
                 report, sentVars>>

\* waitpid(res_thumb, &status, 0); status is not looked at
WaitThumb(k) ==
  /\ Goto(k, "wait_thumb", IF k # 1 THEN "gate" ELSE "display")
  /\ Ended(res_thumb[k])
  /\ UNCHANGED <<schedVars, wstat, localVars, html, gate, childVars, sessVars,
                 report, sentVars>>

\* process_img without the read of the gate pipe
GateReadSkip(k) ==
  /\ Goto(k, "gate", "display")
  /\ UNCHANGED <<schedVars, wstat, localVars, html, gate, childVars, sessVars,
                 report, sentVars>>

\* read(from_prev, &receive, sizeof(int)): blocks while the pipe is empty
GateRead(k) ==
  /\ Goto(k, "gate", "display")
  /\ gate # <<>>
  /\ receive' = [receive EXCEPT ![k] = Head(gate)]
  /\ gate_got' = [gate_got EXCEPT ![k] = Head(gate)]
  /\ gate' = Tail(gate)
  /\ UNCHANGED <<schedVars, wstat, rot_dir, caption, html, childVars, sessVars,
                 report, tok_sent, gate_sent,
                 died>>

\* dis_thumb = display(thumb_name);
Display(k) ==
  /\ Goto(k, "display", "wait_display")
  /\ dis_thumb' = [dis_thumb EXCEPT ![k] = "run"]
  /\ UNCHANGED <<schedVars, wstat, localVars, html, gate, res_thumb, res_med,
                 img_child, rot_thumb, rot_med, sessVars, report, sentVars>>

\* the user closes the image, magick display exits, waitpid(dis_thumb) returns
DisplayClosed(k) ==
  /\ Goto(k, "wait_display", "ask_user")
  /\ dis_thumb[k] = "run"
  /\ dis_thumb' = [dis_thumb EXCEPT ![k] = "done"]
  /\ UNCHANGED <<schedVars, wstat, localVars, html, gate, res_thumb, res_med,
                 img_child, rot_thumb, rot_med, sessVars, report, sentVars>>

----------------------------------------------------------------------------
\* The interactive session: ask_user, its child, ask_caption

\* pipe(sv1), pipe(sv2), fork(): the child waits for the parent on sv1
AskFork(k) ==
  /\ Goto(k, "ask_user", "ask_trig")
  /\ helper' = [helper EXCEPT ![k] = "wait0"]
  /\ UNCHANGED <<schedVars, wstat, localVars, html, gate, childVars, sv1, sv2,
                 report, sentVars>>

\* ask_user, parent: write(to_child, &send, sizeof(int))
AskTrigger(k) ==
  /\ Goto(k, "ask_trig", "ask_read")
  /\ sv1' = [sv1 EXCEPT ![k] = Append(@, 0)]
  /\ UNCHANGED <<schedVars, wstat, localVars, html, gate, childVars, helper, sv2,
                 report, sentVars>>

\* the child without its read of sv1: it prompts without being told to
HelperReadEager(k) ==
  /\ helper[k] \in {"wait0", "wait1"}
  /\ helper' = [helper EXCEPT ![k] = IF @ = "wait0" THEN "prompt0" ELSE "prompt1"]
  /\ UNCHANGED <<schedVars, wstat, pc, localVars, html, gate, childVars, sv1, sv2,
                 report, sentVars>>

\* child, iteration i = 0 or 1: read(from_parent, &receive, sizeof(int))
\* returns and input_string prints the message
HelperRead(k) ==
  /\ helper[k] \in {"wait0", "wait1"}
  /\ sv1[k] # <<>>
  /\ sv1' = [sv1 EXCEPT ![k] = Tail(@)]
  /\ helper' = [helper EXCEPT ![k] = IF @ = "wait0" THEN "prompt0" ELSE "prompt1"]
  /\ UNCHANGED <<schedVars, wstat, pc, localVars, html, gate, childVars, sv2,
                 report, sentVars>>

\* child: the user answers, input_string returns, write(to_parent, writebuf,
\* STRING_LEN); after the second answer: free(writebuf); exit(0)
HelperAnswer(k) ==
  /\ helper[k] \in {"prompt0", "prompt1"}
  /\ \E a \in (IF helper[k] = "prompt0" THEN RotAnswers ELSE Captions) :
       sv2' = [sv2 EXCEPT ![k] = Append(@, a)]
  /\ helper' = [helper EXCEPT ![k] = IF @ = "prompt0" THEN "wait1" ELSE "done"]
  /\ UNCHANGED <<schedVars, wstat, pc, localVars, html, gate, childVars, sv1,
                 report, sentVars>>

\* ask_user with its second test left out: whatever is not "1" rotates left
RotDirLoose(readbuf) == IF readbuf = "1" THEN 1 ELSE 2

\* if (strcmp(readbuf, "1") == 0) rot_dir = 1;
\* else if (strcmp(readbuf, "2") == 0) rot_dir = 2;   (rot_dir starts at 0)
RotDir(readbuf) ==
  IF readbuf = "1" THEN 1 ELSE IF readbuf = "2" THEN 2 ELSE 0

\* process_img without its call of ask_caption when no rotation is asked for
AskReadNoCaption(k) ==
  /\ pc[k] = "ask_read"
  /\ sv2[k] # <<>>
  /\ sv2' = [sv2 EXCEPT ![k] = Tail(@)]
  /\ rot_dir' = [rot_dir EXCEPT ![k] = RotDir(Head(sv2[k]))]
  /\ pc' = [pc EXCEPT ![k] = IF RotDir(Head(sv2[k])) > 0 THEN "rotate" ELSE "cap_html"]
  /\ UNCHANGED <<schedVars, wstat, receive, caption, html, gate, childVars, helper,
                 sv1, report, sentVars>>

\* ask_user, parent: read(from_child, readbuf, STRING_LEN); return rot_dir;
\* then process_img: if (rot_dir > 0)
AskRead(k) ==
  /\ pc[k] = "ask_read"
  /\ sv2[k] # <<>>
  /\ sv2' = [sv2 EXCEPT ![k] = Tail(@)]
  /\ rot_dir' = [rot_dir EXCEPT ![k] = RotDir(Head(sv2[k]))]
  /\ pc' = [pc EXCEPT ![k] = IF RotDir(Head(sv2[k])) > 0 THEN "rotate" ELSE "cap_trig"]
  /\ UNCHANGED <<schedVars, wstat, receive, caption, html, gate, childVars, helper,
                 sv1, report, sentVars>>

\* rotate(): the argument of magick convert -rotate
Direction(d) == IF d = 1 THEN "90" ELSE IF d = 2 THEN "-90" ELSE "0"

\* rotate(thumb_name, thumb_name, rot_dir); rotate(med_name, med_name, rot_dir);
Rotate(k) ==
  /\ Goto(k, "rotate", "cap_trig")
  /\ rot_thumb' = [rot_thumb EXCEPT ![k] = Direction(rot_dir[k])]
  /\ rot_med' = [rot_med EXCEPT ![k] = Direction(rot_dir[k])]
  /\ UNCHANGED <<schedVars, wstat, localVars, html, gate, res_thumb, res_med,
                 img_child, sessVars, report, sentVars,
                 dis_thumb>>

\* the child of rotate() is running magick convert -rotate c
Rotating(c) == c \in {"90", "-90", "0"}

\* magick convert -rotate of the thumbnail ends
RotThumbDone(k) ==
  /\ Rotating(rot_thumb[k])
  /\ rot_thumb' = [rot_thumb EXCEPT ![k] = "done"]
  /\ UNCHANGED <<schedVars, wstat, pc, localVars, html, gate, res_thumb, res_med,
                 img_child, rot_med, sessVars, report, sentVars,
                 dis_thumb>>

\* magick convert -rotate of the medium image ends
RotMedDone(k) ==
  /\ Rotating(rot_med[k])
  /\ rot_med' = [rot_med EXCEPT ![k] = "done"]
  /\ UNCHANGED <<schedVars, wstat, pc, localVars, html, gate, res_thumb, res_med,
                 img_child, rot_thumb, sessVars, report, sentVars,
                 dis_thumb>>

\* ask_caption: write(to_child, &send, sizeof(int))
CapTrigger(k) ==
  /\ Goto(k, "cap_trig", "cap_read")
  /\ sv1' = [sv1 EXCEPT ![k] = Append(@, 0)]
  /\ UNCHANGED <<schedVars, wstat, localVars, html, gate, childVars, helper, sv2,
                 report, sentVars>>

\* ask_caption: read(from_child, caption, STRING_LEN)
CapRead(k) ==
  /\ Goto(k, "cap_read", "cap_html")
  /\ sv2[k] # <<>>
  /\ sv2' = [sv2 EXCEPT ![k] = Tail(@)]
  /\ caption' = [caption EXCEPT ![k] = Head(sv2[k])]
  /\ UNCHANGED <<schedVars, wstat, receive, rot_dir, html, gate, childVars, helper,
                 sv1, report, sentVars>>

----------------------------------------------------------------------------
\* The end of process_img

\* cap_html(caption): fopen("index.html", "a"), fprintf, fclose, in the worker
cap_html(k) == Append(report, CapBlock(k, caption[k]))

CapHtml(k) ==
  /\ Goto(k, "cap_html", "send_token")
  /\ report' = cap_html(k)
  /\ UNCHANGED <<schedVars, wstat, localVars, html, gate, childVars, sessVars,
                 sentVars>>

\* send = index + 1; write(html_out, &send, sizeof(int));
SendToken(k) ==
  /\ Goto(k, "send_token", "send_gate")
  /\ html' = Append(html, k + 1)
  /\ tok_sent' = [tok_sent EXCEPT ![k] = @ + 1]
  /\ UNCHANGED <<schedVars, wstat, localVars, gate, childVars, sessVars, report,
                 gate_got, gate_sent,
                 died>>

\* write(to_next, &send, sizeof(int));
SendGate(k) ==
  /\ Goto(k, "send_gate", "exit")
  /\ gate' = Append(gate, k + 1)
  /\ gate_sent' = [gate_sent EXCEPT ![k] = @ + 1]
  /\ UNCHANGED <<schedVars, wstat, localVars, html, childVars, sessVars, report,
                 gate_got, tok_sent,
                 died>>

\* return 0; then in process(): free(thumb_name); free(med_name); exit(0);
\* the memory of the process is gone with it
Exit(k) ==
  /\ Goto(k, "exit", "done")
  /\ wstat' = [wstat EXCEPT ![k] = "zombie"]
  /\ receive' = [receive EXCEPT ![k] = 0]
  /\ rot_dir' = [rot_dir EXCEPT ![k] = 0]
  /\ caption' = [caption EXCEPT ![k] = ""]
  /\ UNCHANGED <<schedVars, html, gate, childVars, sessVars, report, sentVars>>

----------------------------------------------------------------------------
Worker(k) ==
  \/ Resize(k) \/ PollRead(k) \/ Resend(k) \/ HtmlFork(k) \/ WaitThumb(k)
  \/ GateRead(k) \/ Display(k) \/ DisplayClosed(k)
  \/ AskFork(k) \/ AskTrigger(k) \/ AskRead(k) \/ Rotate(k)
  \/ CapTrigger(k) \/ CapRead(k) \/ CapHtml(k)
  \/ SendToken(k) \/ SendGate(k) \/ Exit(k)

Child(k) ==
  \/ ResThumbDone(k) \/ ResMedDone(k) \/ ImgHtml(k)
  \/ RotThumbDone(k) \/ RotMedDone(k)
  \/ HelperRead(k) \/ HelperAnswer(k)

Next ==
  \/ SchedPoll
  \/ SchedFork
  \/ SchedWait
  \/ \E k \in Items : Worker(k)
  \/ \E k \in Items : Child(k)

\* Every schedule of every process.  The specifications below take those of
\* its schedules in which a child that shares nothing with the other processes
\* runs right after its fork; a formula that does not read the variables of
\* such a child has the same reachable values under both.
SpecAll == Init /\ [][Next]_vars

\* The medium resize and the two rotations only rewrite their own image: they
\* read nothing another process writes and write nothing another process
\* reads, so each of their steps commutes with every step of the others.
ToolRunning ==
  \E k \in Items :
    res_med[k] = "run" \/ Rotating(rot_thumb[k]) \/ Rotating(rot_med[k])

Tool(k) == ResMedDone(k) \/ RotThumbDone(k) \/ RotMedDone(k)

\* The child that runs img_html writes index.html and nothing else; no guard
\* of any process reads index.html.
WriterRunning == \E k \in Items : img_child[k] = "run"

Other(k) == ResThumbDone(k) \/ HelperRead(k) \/ HelperAnswer(k)

\* SpecReport: every schedule of the scheduler, the workers, the helpers, the
\* thumbnail resizes and the link-block writers; a medium resize or a rotation
\* runs as soon as it is forked.
NextReport ==
  \/ \E k \in Items : Tool(k)
  \/ ~ToolRunning /\ SchedPoll
  \/ ~ToolRunning /\ SchedFork
  \/ ~ToolRunning /\ SchedWait
  \/ ~ToolRunning /\ \E k \in Items : Worker(k)
  \/ ~ToolRunning /\ \E k \in Items : Other(k)
  \/ ~ToolRunning /\ \E k \in Items : ImgHtml(k)

\* batches of fewer images than Spec takes
InitReport == \E n \in 1..(NumItems - 1) : Start(n)

SpecReport == InitReport /\ [][NextReport]_vars

\* Spec: as SpecReport, and a link-block writer runs as soon as it is forked.
\* It reaches every state SpecAll reaches of the variables other than
\* index.html and the children named above.
NextSync ==
  \/ \E k \in Items : Tool(k)
  \/ \E k \in Items : ImgHtml(k)
  \/ ~ToolRunning /\ ~WriterRunning /\ SchedPoll
  \/ ~ToolRunning /\ ~WriterRunning /\ SchedFork
  \/ ~ToolRunning /\ ~WriterRunning /\ SchedWait
  \/ ~ToolRunning /\ ~WriterRunning /\ \E k \in Items : Worker(k)
  \/ ~ToolRunning /\ ~WriterRunning /\ \E k \in Items : Other(k)

Spec == Init /\ [][NextSync]_vars

\* SpecLive: Spec, with every process scheduled fairly, every magick child
\* ending and the user answering.  A process that can run does run (weak
\* fairness).  The read of the html pipe needs more: the value may be taken
\* by another waiting worker over and over, but that worker sleeps a second
\* after each write-back (album.c:466) while the worker whose turn it is
\* stays blocked in read(), so it does get the value in the end (strong
\* fairness of PollRead).
Quiet == ~ToolRunning /\ ~WriterRunning

Fairness ==
  /\ WF_vars(Quiet /\ (SchedPoll \/ SchedFork \/ SchedWait))
  /\ \A k \in Items :
       /\ WF_vars(Quiet /\ Worker(k))
       /\ SF_vars(Quiet /\ PollRead(k))
       /\ WF_vars(Quiet /\ Other(k))
       /\ WF_vars(Tool(k) \/ ImgHtml(k))

SpecLive == Init /\ [][NextSync]_vars /\ Fairness

----------------------------------------------------------------------------
\* Failures: of magick in a child, and of read and write on the two pipes.
\* A run has at most one of them.

\* a child that ran magick has failed (execlp failed and the child called
\* exit(-1), or magick itself exited with an error)
ToolFailed(k) ==
  \/ res_thumb[k] = "failed" \/ res_med[k] = "failed" \/ dis_thumb[k] = "failed"
  \/ rot_thumb[k] = "failed" \/ rot_med[k] = "failed"

\* a read or write of worker k on the html pipe or the gate pipe returned -1
ChanFailed(k) ==
  died[k] \in {"poll", "resend", "send_token", "send_gate"} \/ gate_got[k] = -1

NoFault == \A k \in Items : ~ToolFailed(k) /\ ~ChanFailed(k) /\ died[k] = ""

\* exit(-1) of worker k at position at; receive keeps the value it held
Abort(k, at) ==
  /\ pc[k] = at
  /\ NoFault
  /\ pc' = [pc EXCEPT ![k] = "failed"]
  /\ wstat' = [wstat EXCEPT ![k] = "zombie"]
  /\ died' = [died EXCEPT ![k] = at]
  /\ UNCHANGED <<schedVars, localVars, html, gate, childVars, sessVars, report,
                 gate_got, tok_sent, gate_sent>>

\* if (read(html_in, &receive, sizeof(int)) < 0) { ...; exit(-1); }
PollReadFail(k) == Abort(k, "poll")

\* if (write(html_out, &receive, sizeof(int)) < 0) { ...; exit(-1); }
\* the value read is not written back
ResendFail(k) == Abort(k, "resend")

\* if (cap_html(caption)) exit(-1);   (fopen of index.html has failed)
CapHtmlFail(k) == Abort(k, "cap_html")

\* a failure that is noticed only after the value has reached the pipe
SendTokenLate(k) ==
  /\ pc[k] = "send_token"
  /\ NoFault
  /\ html' = Append(html, k + 1)
  /\ pc' = [pc EXCEPT ![k] = "failed"]
  /\ wstat' = [wstat EXCEPT ![k] = "zombie"]
  /\ died' = [died EXCEPT ![k] = "send_token"]
  /\ UNCHANGED <<schedVars, localVars, gate, childVars, sessVars, report,
                 gate_got, tok_sent, gate_sent>>

\* if (write(html_out, &send, sizeof(int)) < 0) { ...; exit(-1); }
SendTokenFail(k) == Abort(k, "send_token")

\* if (write(to_next, &send, sizeof(int)) < 0) { ...; exit(-1); }
SendGateFail(k) == Abort(k, "send_gate")

\* if (read(from_prev, &receive, sizeof(int)) < 0) fprintf(stderr, ...);
\* "keep going anyway": the worker goes on to display
GateReadFail(k) ==
  /\ Goto(k, "gate", "display")
  /\ NoFault
  /\ gate_got' = [gate_got EXCEPT ![k] = -1]
  /\ UNCHANGED <<schedVars, wstat, localVars, html, gate, childVars, sessVars,
                 report, tok_sent, gate_sent, died>>

\* magick convert -resize 10% fails
ResThumbFail(k) ==
  /\ res_thumb[k] = "run"
  /\ NoFault
  /\ res_thumb' = [res_thumb EXCEPT ![k] = "failed"]
  /\ UNCHANGED <<schedVars, wstat, pc, localVars, html, gate, res_med, img_child,
                 rot_thumb, rot_med, dis_thumb, sessVars, report, sentVars>>

\* magick convert -resize 25% fails
ResMedFail(k) ==
  /\ res_med[k] = "run"
  /\ NoFault
  /\ res_med' = [res_med EXCEPT ![k] = "failed"]
  /\ UNCHANGED <<schedVars, wstat, pc, localVars, html, gate, res_thumb, img_child,
                 rot_thumb, rot_med, dis_thumb, sessVars, report, sentVars>>

\* magick display fails; waitpid(dis_thumb, &status, 0) returns
DisplayFail(k) ==
  /\ Goto(k, "wait_display", "ask_user")
  /\ dis_thumb[k] = "run"
  /\ NoFault
  /\ dis_thumb' = [dis_thumb EXCEPT ![k] = "failed"]
  /\ UNCHANGED <<schedVars, wstat, localVars, html, gate, res_thumb, res_med,
                 img_child, rot_thumb, rot_med, sessVars, report, sentVars>>

\* magick convert -rotate of the thumbnail fails
RotThumbFail(k) ==
  /\ Rotating(rot_thumb[k])
  /\ NoFault
  /\ rot_thumb' = [rot_thumb EXCEPT ![k] = "failed"]
  /\ UNCHANGED <<schedVars, wstat, pc, localVars, html, gate, res_thumb, res_med,
                 img_child, rot_med, dis_thumb, sessVars, report, sentVars>>

\* magick convert -rotate of the medium image fails
RotMedFail(k) ==
  /\ Rotating(rot_med[k])
  /\ NoFault
  /\ rot_med' = [rot_med EXCEPT ![k] = "failed"]
  /\ UNCHANGED <<schedVars, wstat, pc, localVars, html, gate, res_thumb, res_med,
                 img_child, rot_thumb, dis_thumb, sessVars, report, sentVars>>

\* failures of the children that Spec runs as soon as they are forked
ToolFail(k) == ResMedFail(k) \/ RotThumbFail(k) \/ RotMedFail(k)

ChanFail(k) ==
  \/ PollReadFail(k) \/ ResendFail(k) \/ GateReadFail(k)
  \/ SendTokenFail(k) \/ SendGateFail(k)

Fail(k) == ChanFail(k) \/ CapHtmlFail(k) \/ ResThumbFail(k) \/ DisplayFail(k)

\* SpecFault: the schedules of Spec, and at most one failure at any point
NextFault ==
  \/ \E k \in Items : Tool(k)
  \/ \E k \in Items : ToolFail(k)
  \/ \E k \in Items : ImgHtml(k)
  \/ ~ToolRunning /\ ~WriterRunning /\ SchedPoll
  \/ ~ToolRunning /\ ~WriterRunning /\ SchedFork
  \/ ~ToolRunning /\ ~WriterRunning /\ SchedWait
  \/ ~ToolRunning /\ ~WriterRunning /\ \E k \in Items : Worker(k)
  \/ ~ToolRunning /\ ~WriterRunning /\ \E k \in Items : Other(k)
  \/ ~ToolRunning /\ ~WriterRunning /\ \E k \in Items : Fail(k)

SpecFault == InitReport /\ [][NextFault]_vars

\* SpecMain: the program from main() on, for every command line of at most
\* NumItems - 2 files and every content of the stack slot of bytes[]
InitMain ==
  \E n \in 0..(NumItems - 2) :
    \E a \in [1..n -> Files] :
      \E b \in StackBytes :
        /\ argc = n
        /\ sched_pc = "validate"
        /\ i = 0
        /\ j = 0
        /\ argv = a
        /\ vi = 1
        /\ bytes = b
        /\ ptp = FALSE
        /\ Idle
        /\ report = <<>>

NextMain ==
  \/ Usage
  \/ InvalidImg
  \/ EnterProcess
  \/ MakePipes
  \/ PipeFail
  \/ NextSync

SpecMain == InitMain /\ [][NextMain]_vars

\* an entry that an earlier run has left in index.html
OldBlock == [kind |-> "old", item |-> 0, text |-> ""]

\* SpecOld: as SpecReport, for a run that finds an index.html of an earlier
\* run
InitOld ==
  \E n \in 1..(NumItems - 2) : Entered(n) /\ Idle /\ report = <<OldBlock>>

SpecOld == InitOld /\ [][NextReport]_vars

\* SpecTools: every schedule of the scheduler, the workers, the helpers and
\* the children that run magick (both resizes, both rotations); a link-block
\* writer runs as soon as it is forked.
NextTools ==
  \/ \E k \in Items : ImgHtml(k)
  \/ ~WriterRunning /\ SchedPoll
  \/ ~WriterRunning /\ SchedFork
  \/ ~WriterRunning /\ SchedWait
  \/ ~WriterRunning /\ \E k \in Items : Worker(k)
  \/ ~WriterRunning /\ \E k \in Items : Other(k)
  \/ ~WriterRunning /\ \E k \in Items : Tool(k)

\* batches small enough for the schedules of the magick children
InitTools == \E n \in 1..(NumItems - 2) : Start(n)

SpecTools == InitTools /\ [][NextTools]_vars

----------------------------------------------------------------------------
\* Positions of process_img, in the order of the source text

PcOrder ==
  <<"none", "resize", "poll", "resend", "html", "wait_thumb", "gate", "display",
    "wait_display", "ask_user", "ask_trig", "ask_read", "rotate", "cap_trig",
    "cap_read", "cap_html", "send_token", "send_gate", "exit", "done">>

Rank(p) == CHOOSE r \in 1..Len(PcOrder) : PcOrder[r] = p

\* worker k has passed position p
Past(k, p) == Rank(pc[k]) > Rank(p)

\* the link-block of k is in index.html (img_html has returned in the child)
LinkWritten(k) == img_child[k] = "done"

\* the caption-block of k is in index.html (cap_html has returned)
CapWritten(k) == Past(k, "cap_html")

\* display(thumb_name) has been called for k
DisplayStarted(k) == Past(k, "display")

\* ask_caption has returned the caption of k
SessionReturned(k) == Past(k, "cap_read")

----------------------------------------------------------------------------
\* C1: for all a < b, the link-block of item a is appended to index.html
\* before the link-block of item b: at no time is the link-block of b written
\* while that of a is not.
C1_LinkOrder ==
  \A a, b \in Items : (a < b /\ LinkWritten(b)) => LinkWritten(a)

\* C2: the link-block of k is written before the caption-block of k, both are
\* written before the link-block of k + 1, and in index.html the caption-block
\* of k directly follows the link-block of k, which directly follows the
\* caption-block of k - 1.
C2_NoInterleaving ==
  /\ \A k \in Items : CapWritten(k) => LinkWritten(k)
  /\ \A k \in Items : (k > 1 /\ LinkWritten(k)) => (LinkWritten(k - 1) /\ CapWritten(k - 1))
  /\ \A p \in 1..Len(report) :
       /\ report[p].kind = "cap" =>
            (p > 1 /\ report[p - 1] = LinkBlock(report[p].item))
       /\ (report[p].kind = "link" /\ p > 1) =>
            (report[p - 1].kind = "cap" /\ report[p - 1].item = report[p].item - 1)

\* C3: at most max_conversions workers are forked and not yet exited, in
\* every state and for batches larger than the cap, and process() forks a
\* worker only in a state where fewer than max_conversions are running.
C3_Cap ==
  /\ [](Cardinality(Active) <= max_conversions)
  /\ [][i' # i => Cardinality(Active) < max_conversions]_vars

\* the cap is reached while images are left to fork: the spawn loop has to wait
C3_Witness ==
  /\ argc > max_conversions
  /\ Cardinality(Active) = max_conversions
  /\ sched_pc = "poll"
  /\ i = max_conversions

\* C8: process() ends its final loop (the batch is declared complete) only
\* when every worker it forked has exited, whether concurrent() reaped the
\* worker before or the final waitpid does.
C8_AllTerminated ==
  sched_pc = "done" =>
    \A k \in 1..argc : pc[k] = "done" /\ wstat[k] \in {"reaped", "joined"}

\* the batch is complete, one worker was reaped by concurrent() and another by
\* the final loop
C8_Witness ==
  /\ sched_pc = "done"
  /\ \E a, b \in 1..argc : wstat[a] = "reaped" /\ wstat[b] = "joined"

\* worker k holds the turn to write: from the read of its own index on the
\* html pipe (worker 1: from the start) to its write of index + 1
InTurn(k) ==
  IF k = 1 THEN ~Past(k, "send_token")
  ELSE Past(k, "resend") /\ ~Past(k, "send_token")

\* the tokens there are: in the html pipe, read by a worker that has not yet
\* written it back, or held by the worker whose turn it is
Tokens ==
  Len(html) + Cardinality({k \in Items : pc[k] = "resend"})
            + Cardinality({k \in Items : InTurn(k)})

\* C4: at most one ordering token exists at any time; a worker that reads a
\* value other than its index writes that very value back, and a worker takes
\* its turn only on reading its own index.
C4_OneToken ==
  /\ [](Tokens <= 1)
  /\ [](\A k \in Items : /\ pc[k] = "resend" => receive[k] # k
                         /\ (k > 1 /\ InTurn(k)) => receive[k] = k)
  /\ [][\A k \in Items :
          /\ (pc[k] = "resend" /\ pc'[k] # "resend") =>
               (pc'[k] = "poll" /\ html' = Append(html, receive[k]))
          /\ (pc[k] = "poll" /\ pc'[k] # "poll") =>
               /\ receive'[k] = Head(html)
               /\ pc'[k] = IF Head(html) = k THEN "html" ELSE "resend"]_vars

\* worker 3 has read the token of worker 2 and is about to write it back
C4_Witness == pc[3] = "resend" /\ receive[3] = 2 /\ html = <<>>

WithUser(k) == pc[k] = "wait_display" \/ helper[k] \in {"prompt0", "prompt1"}

\* C6: for all a < b, display is called for b only after the display of a was
\* closed and the session of a has returned its caption; at most one image is
\* on display or prompted for at any time.
C6_DisplayOrder ==
  /\ \A a, b \in Items :
       (a < b /\ DisplayStarted(b)) => (Past(a, "wait_display") /\ SessionReturned(a))
  /\ Cardinality({k \in Items : WithUser(k)}) <= 1

\* image 3 is on display while a later worker runs
C6_Witness == pc[3] = "wait_display" /\ wstat[4] = "running"

\* the moves of worker k in the text of process_img
Moves(k) ==
  {<<"none", "resize">>,
   <<"resize", IF k # 1 THEN "poll" ELSE "html">>,
   <<"poll", "resend">>, <<"resend", "poll">>, <<"poll", "html">>,
   <<"html", "wait_thumb">>,
   <<"wait_thumb", IF k # 1 THEN "gate" ELSE "display">>,
   <<"gate", "display">>, <<"display", "wait_display">>,
   <<"wait_display", "ask_user">>, <<"ask_user", "ask_trig">>,
   <<"ask_trig", "ask_read">>, <<"ask_read", "rotate">>,
   <<"ask_read", "cap_trig">>, <<"rotate", "cap_trig">>,
   <<"cap_trig", "cap_read">>, <<"cap_read", "cap_html">>,
   <<"cap_html", "send_token">>, <<"send_token", "send_gate">>,
   <<"send_gate", "exit">>, <<"exit", "done">>}

C9_ReleaseAfterBlocks ==
  \A k \in Items :
    /\ (tok_sent[k] > 0 \/ gate_sent[k] > 0) => (LinkWritten(k) /\ CapWritten(k))
    /\ gate_sent[k] > 0 => tok_sent[k] > 0
    /\ tok_sent[k] <= 1 /\ gate_sent[k] <= 1
    /\ pc[k] = "done" => (tok_sent[k] = 1 /\ gate_sent[k] = 1)

\* the moves of the child of ask_user
HelperMoves ==
  {<<"none", "wait0">>, <<"wait0", "prompt0">>, <<"prompt0", "wait1">>,
   <<"wait1", "prompt1">>, <<"prompt1", "done">>}

C11_CaptionAfterRotation ==
  \A k \in Items :
    /\ helper[k] \notin {"none", "wait0"} => dis_thumb[k] = "done"
    /\ helper[k] = "prompt1" =>
         IF rot_dir[k] > 0
         THEN rot_thumb[k] = "done" /\ rot_med[k] = "done"
         ELSE rot_thumb[k] = "none" /\ rot_med[k] = "none"

\* C12: a worker one of whose magick children (resize, display, rotate) has
\* failed does not reach the end of process_img: it never exits with 0.
C12_ToolFatal ==
  \A k \in Items : ToolFailed(k) => pc[k] \notin {"exit", "done"}

\* C13: a worker whose read or write on the html pipe or the gate pipe has
\* failed never reaches the end of process_img, and after a failed read of
\* the gate pipe it displays nothing and asks nothing; no other worker has
\* called exit(-1).
C13_ChannelFatal ==
  \A k \in Items :
    ChanFailed(k) =>
      /\ pc[k] \notin {"exit", "done"}
      /\ gate_got[k] = -1 => (dis_thumb[k] = "none" /\ helper[k] = "none")
      /\ \A m \in Items \ {k} : died[m] = ""

\* worker k called exit(-1) before its write of index + 1 to the html pipe
AbortedInTurn(k) == died[k] \in {"poll", "resend", "cap_html", "send_token"}

\* worker k has never had its turn on the html pipe nor a gate signal
NoTurn(k) == pc[k] \in {"none", "resize", "poll", "resend"} /\ gate_got[k] = 0

\* no worker, helper or magick child can take a step: whatever is not over
\* waits for ever
Quiescent == ~ENABLED (\E k \in Items : Worker(k) \/ Child(k))

\* C14, as amended: when worker a has called exit(-1) before releasing its
\* turn, no worker of a higher index ever has its turn or a gate signal, and
\* once nothing can move every worker of a lower index has completed, except,
\* when a died on the write-back of a value it was forwarding, the workers
\* from that value on.
C14_Stall ==
  \A a \in Items :
    AbortedInTurn(a) =>
      /\ \A b \in Items : b > a => NoTurn(b)
      /\ Quiescent =>
           \A b \in Items :
             b < a => (pc[b] = "done" \/ (died[a] = "resend" /\ receive[a] <= b))

\* worker 2 died in its turn: worker 1 is done, worker 3 waits for ever
C14_Witness ==
  /\ died[2] = "cap_html" /\ Quiescent
  /\ pc[1] = "done" /\ pc[3] = "poll" /\ html = <<>>

\* C14 as stated: when worker a has called exit(-1) before releasing its
\* turn, no worker of a higher index ever has its turn or a gate signal, and
\* every worker of a lower index completes.
C14_LowerComplete ==
  \A a \in Items :
    AbortedInTurn(a) =>
      /\ \A b \in Items : b > a => NoTurn(b)
      /\ Quiescent => \A b \in Items : b < a => pc[b] = "done"

\* the positions of process_img between the rotations and the end
AfterRotate == {"cap_trig", "cap_read", "cap_html", "send_token", "send_gate", "exit"}

\* C15: the answer the worker reads first decides the rotation: "1" gives
\* rot_dir 1 and magick -rotate 90, "2" gives rot_dir 2 and -rotate -90,
\* anything else (the empty answer too) gives rot_dir 0; rotate() is called,
\* for the thumbnail and for the medium image and with that angle, exactly
\* when rot_dir is not 0.
C15_Rotation ==
  /\ [][\A k \in Items :
          (pc[k] = "ask_read" /\ pc'[k] # "ask_read") =>
            LET a == Head(sv2[k]) IN
              /\ a = "1" => (rot_dir'[k] = 1 /\ pc'[k] = "rotate")
              /\ a = "2" => (rot_dir'[k] = 2 /\ pc'[k] = "rotate")
              /\ a \notin {"1", "2"} => (rot_dir'[k] = 0 /\ pc'[k] = "cap_trig")]_vars
  /\ [][\A k \in Items :
          (pc[k] = "rotate" /\ pc'[k] # "rotate") =>
            /\ rot_dir[k] = 1 => (rot_thumb'[k] = "90" /\ rot_med'[k] = "90")
            /\ rot_dir[k] = 2 => (rot_thumb'[k] = "-90" /\ rot_med'[k] = "-90")]_vars
  /\ [](\A k \in Items :
          pc[k] \in AfterRotate =>
            IF rot_dir[k] = 0
            THEN rot_thumb[k] = "none" /\ rot_med[k] = "none"
            ELSE rot_thumb[k] # "none" /\ rot_med[k] # "none")

\* the answer was "2": both rotations have just been forked with -90
C15_Witness ==
  \E k \in Items :
    /\ pc[k] = "cap_trig" /\ rot_dir[k] = 2
    /\ rot_thumb[k] = "-90" /\ rot_med[k] = "-90"

\* the leading bytes of a file, -1 where the file has ended
Leading(f) == [p \in 1..8 |-> IF p <= Len(f.data) THEN f.data[p] ELSE -1]

\* the file can be opened and its leading bytes are one of the signatures
IsImage(f) == f.ok /\ header_is_img(Leading(f))

\* C16: when no file is named, or one of the files named cannot be opened or
\* does not begin with an image signature, main() forks no worker, makes no
\* pipe, leaves index.html alone and can only end by returning -1.
C16_Rejected ==
  (argc = 0 \/ \E k \in 1..argc : ~IsImage(argv[k])) =>
    /\ sched_pc \in {"validate", "error"}
    /\ i = 0 /\ \A k \in Items : wstat[k] = "none"
    /\ ~ptp
    /\ report = <<>>

\* C17: index.html holds no entry of an earlier run once it holds a block of
\* this run (the one truncating write, the link-block of image 1, comes
\* first and every other write appends), and when a run of a single image is
\* over index.html is the link-block of the image followed by its
\* caption-block.
C17_Truncate ==
  /\ (\E p \in 1..Len(report) : report[p].kind # "old") =>
       (\A p \in 1..Len(report) : report[p].kind # "old")
  /\ (argc = 1 /\ pc[1] = "done" /\ img_child[1] = "done") =>
       /\ Len(report) = 2
       /\ report[1] = LinkBlock(1)
       /\ report[2].kind = "cap" /\ report[2].item = 1

\* C18: worker 1 takes its turn without a read of the html pipe, no worker
\* ever reads the value argc + 1 that the last worker writes, and that value
\* is what the html pipe holds from then on, also when process() returns.
C18_Seed ==
  /\ pc[1] \notin {"poll", "resend"} /\ receive[1] = 0
  /\ \A k \in Items : receive[k] <= argc
  /\ tok_sent[argc] = 1 => html = <<argc + 1>>
  /\ sched_pc = "done" => html = <<argc + 1>>

\* the batch of several images is complete and the last value is in the pipe
C18_Witness ==
  /\ sched_pc = "done" /\ argc >= 2
  /\ html = <<argc + 1>> /\ tok_sent[argc] = 1
  /\ pc[1] = "done"

C19_Live ==
  <>(sched_pc = "done" /\ \A k \in 1..argc : pc[k] = "done")

\* a batch larger than the cap is complete
C19_Witness ==
  /\ argc > max_conversions
  /\ sched_pc = "done" /\ \A k \in 1..argc : pc[k] = "done"

\* the blocks of index.html of the given kind
Blocks(kind) == {p \in 1..Len(report) : report[p].kind = kind}

\* C21: when process() has left its final loop, both resizes, the rotations,
\* the link-block write and the caption-block write of every image are over,
\* and index.html holds argc link-blocks and argc caption-blocks.
C21_AllComplete ==
  sched_pc = "done" =>
    /\ \A k \in 1..argc :
         /\ res_thumb[k] = "done" /\ res_med[k] = "done"
         /\ ~Rotating(rot_thumb[k]) /\ ~Rotating(rot_med[k])
         /\ img_child[k] = "done" /\ CapWritten(k)
    /\ Cardinality(Blocks("link")) = argc
    /\ Cardinality(Blocks("cap")) = argc

\* C22: a rotation of the thumbnail is forked only when the resize that
\* makes the thumbnail has ended, and a rotation of the medium image only
\* when the resize that makes the medium image has ended.
C22_RotateAfterResize ==
  \A k \in Items :
    /\ rot_thumb[k] # "none" => res_thumb[k] = "done"
    /\ rot_med[k] # "none" => res_med[k] = "done"

====
